---- MODULE Spec2Model ----
(***************************************************************************)
(* Model of sqlalchemy_dummy_data: the integer sequencers of seq.py        *)
(* (count, _triangled, _squared and their labelled forms) and the          *)
(* table registry / foreign-key iteration of __init__.py.                  *)
(*                                                                         *)
(* Python generators are modelled by their resumption state: one action    *)
(* is one next() on the generator.  An optional integer is <<>> (None) or  *)
(* the 1-tuple <<i>>.                                                      *)
(***************************************************************************)
EXTENDS Integers, Sequences, FiniteSets, TLC

VARIABLES
    kind,       \* which sequencer the generator object was made by
    n,          \* its dimension argument
    labels,     \* triangled / squared: its label arguments
    start,      \* its start argument (optional integer)
    stop,       \* its stop argument (optional integer)
    cur,        \* last tuple yielded by the count / _triangled generator
                \* (_create_iter_fks: position of itertools.product)
    pending,    \* _squared: permutations of cur not yet yielded
    status,     \* "fresh", "running", "done" (StopIteration), "error" (ValueError)
    cnt,        \* number of items yielded so far
    last,       \* the last item yielded to the consumer
    seen,       \* set of all items yielded to the consumer so far
    raised,     \* the exception that ended the generator, "" when none
    cls,        \* _create_iter_fks / create_iter_fks: the table called on
    kwargs,     \* _create_iter_fks: its keyword arguments
    coproduct   \* _create_iter_fks: its local coproduct, once computed

seqVars == <<kind, n, labels, start, stop, cur, pending, status, cnt, last, seen, raised>>

iterVars == <<cls, kwargs, coproduct>>

VARIABLES
    case,       \* which set of mapped classes (tests/cases.py) is being built
    reg,        \* how many of its classes DummyMeta.__new__ has created
    tables,     \* DummyMeta.tables: table name -> mapped class
    tablenames, \* DummyMeta.tablenames
    fks,        \* DummyMeta.fks: table name -> ordered dict of columns
    pks,        \* DummyMeta.pks: table name -> ordered dict of columns
    pknames,    \* DummyMeta.pknames
    fknames,    \* DummyMeta.fknames
    all_pks,    \* the key domain handed to the create methods, or None
    ret         \* what the last call of a get_ / _create_coproduct method gave

regVars == <<case, reg, tables, tablenames, fks, pks, pknames, fknames>>

VARIABLES
    frames,     \* two generator objects consumed in turn: their frames
    setorder    \* the order in which this build iterates each set of
                \* permutations it has iterated so far

pairVars == <<frames, setorder>>

vars == <<seqVars, iterVars, regVars, all_pks, ret, pairVars>>

-----------------------------------------------------------------------------
(* Bounds of the model. *)

MaxN == 3           \* largest dimension of count / _triangled instances
MaxNeg == 1         \* dimensions range from -MaxNeg
MaxSqN == 2         \* largest dimension of _squared instances
MinBound == 2       \* start and stop range over -MinBound+1 .. MaxBound
MaxBound == 3
MaxUnbounded == 6   \* items consumed from a generator with stop = None
MaxD == 4           \* longest key list of a by-reference key domain
MaxSnap == 2        \* longest key list of a snapshot key domain
MaxPairBound == 2   \* start and stop of generators run in pairs
MaxPairTake == 3    \* items consumed from an endless generator run in a pair

None == <<>>

Some(i) == <<i>>

BoundVals == (1 - MinBound)..MaxBound

OptBounds == {None} \cup {Some(i) : i \in BoundVals}

-----------------------------------------------------------------------------
(* seq.py: iters.count *)

\* a plausible slip: the default is also taken for start = 0 but is 0
CountStartZeroDefault(s) == IF s = None THEN 0 ELSE s[1]

\* a plausible slip: line 125 reads `1 if start is None else start`
CountStartIsNone(s) == IF s = None THEN 1 ELSE s[1]

\* line 125: start = start or 1  (None and 0 are both falsy)
CountStart(s) == IF s = None \/ s = Some(0) THEN 1 ELSE s[1]

\* a plausible slip: the test of line 126 is missing
CountFirstNoCheck(s, e) == [kind |-> "yield", val |-> CountStart(s)]

\* lines 125-133: the first next() on count(start, stop)
CountFirst(s, e) ==
    IF e # None /\ CountStart(s) > e[1]
    THEN [kind |-> "error", val |-> 0]
    ELSE [kind |-> "yield", val |-> CountStart(s)]

\* a plausible slip: the bound test is strict, so stop + 1 is yielded too
CountResumeStrict(k, e) ==
    IF e # None /\ k > e[1]
    THEN [kind |-> "stop", val |-> 0]
    ELSE [kind |-> "yield", val |-> k + 1]

\* lines 134-136, then 133: a later next() on count, k the value last yielded
CountResume(k, e) ==
    IF e # None /\ k >= e[1]
    THEN [kind |-> "stop", val |-> 0]
    ELSE [kind |-> "yield", val |-> k + 1]

-----------------------------------------------------------------------------
(* seq.py: iters._triangled                                                *)
(* The generator of dimension d holds the generator of dimension d - 1     *)
(* and a count(start, coord[0]); both are determined by the tuple last     *)
(* yielded, c: the inner generator last yielded Tail(c).                   *)

\* a plausible slip: line 158 yields (*coord, ext)
TriExtendAppend(s, coord) ==
    LET f == CountFirst(s, Some(coord[1]))
    IN  IF f.kind = "yield"
        THEN [kind |-> "yield", val |-> coord \o <<f.val>>]
        ELSE [kind |-> f.kind, val |-> <<>>]

\* lines 157-158 entered with a new coord: first item of count(start, coord[0])
TriExtend(s, coord) ==
    LET f == CountFirst(s, Some(coord[1]))
    IN  IF f.kind = "yield"
        THEN [kind |-> "yield", val |-> <<f.val>> \o coord]
        ELSE [kind |-> f.kind, val |-> <<>>]

RECURSIVE _triangled(_, _, _, _)
\* lines 150-158: one next() on _triangled(d, start=s, stop=e); c = <<>> when
\* the generator has not been started.  A negative d passes both tests of
\* lines 150-152 and line 156 recurses on d - 1, d - 2, ... until the
\* interpreter's recursion limit ends the call with RecursionError
_triangled(d, s, e, c) ==
    IF d < 0
    THEN [kind |-> "recursion", val |-> <<>>]
    ELSE IF d = 0
    THEN [kind |-> "error", val |-> <<>>]
    ELSE IF d = 1
    THEN LET r == IF c = <<>> THEN CountFirst(s, e) ELSE CountResume(c[1], e)
         IN  IF r.kind = "yield"
             THEN [kind |-> "yield", val |-> <<r.val>>]
             ELSE [kind |-> r.kind, val |-> <<>>]
    ELSE IF c = <<>>
    THEN LET r == _triangled(d - 1, s, e, <<>>)
         IN  IF r.kind = "yield" THEN TriExtend(s, r.val) ELSE r
    ELSE LET x == CountResume(c[1], Some(c[2]))
         IN  IF x.kind = "yield"
             THEN [kind |-> "yield", val |-> <<x.val>> \o Tail(c)]
             ELSE LET r == _triangled(d - 1, s, e, Tail(c))
                  IN  IF r.kind = "yield" THEN TriExtend(s, r.val) ELSE r

-----------------------------------------------------------------------------
(* seq.py: iters._squared *)

\* line 170: set(itertools.permutations(item))
Perms(t) ==
    {[i \in 1..Len(t) |-> t[p[i]]] : p \in Permutations(1..Len(t))}

-----------------------------------------------------------------------------
(* seq.py: iters.triangled, iters.squared (the labelled forms) *)

LabelNames == <<"first", "second", "third", "fourth", "fifth">>

\* the label arguments tried: m distinct labels, and one label given twice
LabelLists(m) ==
    {SubSeq(LabelNames, 1, k) : k \in 0..m} \cup {<<"first", "first">>}

\* lines 182, 196: the keys of the dict counters, in insertion order; a label
\* given again is the key it already is
Counters(ls) ==
    LET first == {i \in DOMAIN ls : \A j \in 1..(i - 1) : ls[j] # ls[i]}
    IN  [k \in 1..Cardinality(first) |->
            ls[CHOOSE i \in first : Cardinality({j \in first : j <= i}) = k]]

\* lines 184, 198: {k: v for k, v in zip(counters, coord)}
Labelled(ls, coord) ==
    LET c == Counters(ls)
    IN  [nm \in {c[i] : i \in DOMAIN c} |->
            coord[CHOOSE i \in DOMAIN c : c[i] = nm]]

-----------------------------------------------------------------------------
(* tests/cases.py: the sets of mapped classes the metaclass is run on.    *)
(* A column is its name, its primary_key flag and the target               *)
(* <<table, column>> of its ForeignKey (<<>> when it has none).            *)

PkCol(nm) == [name |-> nm, primary_key |-> TRUE, foreign_key |-> <<>>]

FkCol(nm, t, c, pk) ==
    [name |-> nm, primary_key |-> pk, foreign_key |-> <<t, c>>]

Class(nm, cols) == [tablename |-> nm, columns |-> cols]

ormCycle ==
    << Class("a", <<PkCol("id"), FkCol("id_parent", "d", "id", FALSE)>>),
       Class("b", <<PkCol("id"), FkCol("id_parent", "a", "id", FALSE)>>),
       Class("c", <<PkCol("id"), FkCol("id_parent", "b", "id", FALSE)>>),
       Class("d", <<PkCol("id"), FkCol("id_parent", "c", "id", FALSE)>>) >>

ormConnected ==
    << Class("a", <<PkCol("id"),
                    FkCol("id_b", "b", "id", TRUE), FkCol("id_c", "c", "id", TRUE),
                    FkCol("id_d", "d", "id", TRUE), FkCol("id_e", "e", "id", TRUE)>>),
       Class("b", <<PkCol("id"),
                    FkCol("id_a", "a", "id", TRUE), FkCol("id_c", "c", "id", TRUE),
                    FkCol("id_d", "d", "id", TRUE), FkCol("id_e", "e", "id", TRUE)>>),
       Class("c", <<PkCol("id"),
                    FkCol("id_a", "a", "id", TRUE), FkCol("id_b", "b", "id", TRUE),
                    FkCol("id_d", "d", "id", TRUE), FkCol("id_e", "e", "id", TRUE)>>),
       Class("d", <<PkCol("id"),
                    FkCol("id_a", "a", "id", TRUE), FkCol("id_b", "b", "id", TRUE),
                    FkCol("id_c", "c", "id", TRUE), FkCol("id_e", "e", "id", TRUE)>>),
       Class("e", <<PkCol("id"),
                    FkCol("id_a", "a", "id", TRUE), FkCol("id_b", "b", "id", TRUE),
                    FkCol("id_c", "c", "id", TRUE), FkCol("id_d", "d", "id", TRUE),
                    FkCol("id_e", "e", "id", TRUE)>>) >>

ormManyMany ==
    << Class("a", <<PkCol("id")>>),
       Class("b", <<FkCol("id_a", "a", "id", TRUE), FkCol("id_c", "c", "id", TRUE)>>),
       Class("c", <<PkCol("id")>>) >>

\* a further case of the same form: one table with a primary and a
\* non-primary foreign key
ormMixed ==
    << Class("p", <<PkCol("id")>>),
       Class("q", <<PkCol("id"), FkCol("id_p", "p", "id", TRUE),
                    FkCol("owner", "p", "id", FALSE)>>) >>

\* a further case of the same form: a foreign key into a table that no
\* class declares
ormDangling ==
    << Class("x", <<PkCol("id"), FkCol("id_z", "z", "id", FALSE)>>),
       Class("y", <<PkCol("id"), FkCol("id_x", "x", "id", FALSE)>>) >>

CaseNames == {"ormCycle", "ormConnected", "ormManyMany", "ormMixed", "ormDangling"}

Classes(c) ==
    CASE c = "ormCycle" -> ormCycle
      [] c = "ormConnected" -> ormConnected
      [] c = "ormManyMany" -> ormManyMany
      [] c = "ormMixed" -> ormMixed
      [] c = "ormDangling" -> ormDangling

ClassOf(c, t) ==
    LET cs == Classes(c)
    IN  cs[CHOOSE i \in DOMAIN cs : cs[i].tablename = t]

TableNames(c) == {Classes(c)[i].tablename : i \in DOMAIN Classes(c)}

-----------------------------------------------------------------------------
(* Python dicts keep insertion order: a dict of columns is the sequence   *)
(* of its values, keyed by their name field.                               *)

Keys(d) == {d[i].name : i \in DOMAIN d}

Get(d, k) == d[CHOOSE i \in DOMAIN d : d[i].name = k]

IsFk(col) == col.foreign_key # <<>>

IsPk(col) == col.primary_key

IsPkFk(col) == IsPk(col) /\ IsFk(col)

IsPureFk(col) == IsFk(col) /\ ~IsPk(col)

Ok(v) == [kind |-> "ok", msg |-> "", val |-> v]

Err(k, m) == [kind |-> k, msg |-> m, val |-> <<>>]

-----------------------------------------------------------------------------
(* __init__.py: DummyMixins.get_fks, get_fk_owners, get_pks,              *)
(* _create_coproduct.  kw is the keyword dict, a function from the keys    *)
(* given to their values.                                                  *)

\* line 118: FksKwargs.__required_keys__; typing.TypedDict of the Pythons
\* that need typing_extensions for NotRequired (line 21) lists every key
RequiredKeys == {"exclude_primary", "only_primary"}

\* lines 122-123: kwargs.get(key, False)
Flag(kw, key) == IF key \in DOMAIN kw THEN kw[key] ELSE FALSE

\* a plausible slip: the two filters exchanged (as the docstring of
\* get_fks describes exclude_primary)
SelectFksSwapped(f, ex, op) ==
    IF ex THEN SelectSeq(f, IsPk) ELSE IF op THEN SelectSeq(f, IsPureFk) ELSE f

\* lines 128-136: the three cases that return a mapping
SelectFks(f, ex, op) ==
    IF ex THEN SelectSeq(f, IsPureFk) ELSE IF op THEN SelectSeq(f, IsPk) ELSE f

\* a plausible slip: no case for both flags, which then falls to `case _`
get_fksNoConflict(f, kw) ==
    IF DOMAIN kw \ RequiredKeys # {}
    THEN Err("ValueError", "Illegal keyword arguments")
    ELSE IF Flag(kw, "exclude_primary") /\ Flag(kw, "only_primary")
    THEN Ok(f)
    ELSE Ok(SelectFks(f, Flag(kw, "exclude_primary"), Flag(kw, "only_primary")))

\* lines 117-136: get_fks(**kw), f = cls.__dummies__.fks[cls.__tablename__]
get_fks(f, kw) ==
    IF DOMAIN kw \ RequiredKeys # {}
    THEN Err("ValueError", "Illegal keyword arguments")
    ELSE IF Flag(kw, "exclude_primary") /\ Flag(kw, "only_primary")
    THEN Err("ValueError", "Cannot use both")
    ELSE Ok(SelectFks(f, Flag(kw, "exclude_primary"), Flag(kw, "only_primary")))

\* a plausible slip: every column is given the owner of the first column
get_fk_ownersFirst(tbl, f, kw) ==
    LET r == get_fks(f, kw)
    IN  IF r.kind # "ok" THEN r
        ELSE IF \E i \in DOMAIN r.val : r.val[i].foreign_key[1] \notin DOMAIN tbl
        THEN Err("NoReferencedTableError", "owner table")
        ELSE Ok([i \in DOMAIN r.val |->
                    [name |-> r.val[i].name,
                     owner |-> tbl[r.val[1].foreign_key[1]]]])

\* lines 148-153: get_fk_owners(**kw); tbl is cls.__dummies__.tables.  The
\* owner of a column is looked up by the table name of its ForeignKey.
\* Line 150 first evaluates fk.column, which sqlalchemy resolves among the
\* tables declared so far and refuses with NoReferencedTableError when the
\* table is not one of them; every declared table of a case is in tbl
get_fk_owners(tbl, f, kw) ==
    LET r == get_fks(f, kw)
    IN  IF r.kind # "ok" THEN r
        ELSE IF \E i \in DOMAIN r.val : r.val[i].foreign_key[1] \notin DOMAIN tbl
        THEN Err("NoReferencedTableError", "owner table")
        ELSE Ok([i \in DOMAIN r.val |->
                    [name |-> r.val[i].name,
                     owner |-> tbl[r.val[i].foreign_key[1]]]])

\* lines 162, 166: get_pk(name) of the class registered as t
get_pk(p, t, nm) ==
    IF nm \in Keys(p[t]) THEN Ok(Get(p[t], nm)) ELSE Err("KeyError", nm)

\* a plausible slip: the list is taken from the first table of all_pks that
\* has the name, whichever table owns the key
select_fksAnyTable(ap, p, nm, owner_name) ==
    IF ap # None
    THEN IF \E t \in DOMAIN ap[1] : nm \in DOMAIN ap[1][t]
         THEN Ok(ap[1][CHOOSE t \in DOMAIN ap[1] : nm \in DOMAIN ap[1][t]][nm])
         ELSE Err("KeyError", nm)
    ELSE Err("KeyError", nm)

\* a plausible slip: an owner table the key domain lacks gives an empty list
\* (all_pks.get(owner_name, {}).get(name, []))
select_fksDefault(ap, p, nm, owner_name) ==
    IF ap # None
    THEN IF owner_name \in DOMAIN ap[1] /\ nm \in DOMAIN ap[1][owner_name]
         THEN Ok(ap[1][owner_name][nm])
         ELSE Ok(<<>>)
    ELSE LET c == get_pk(p, owner_name, nm)
         IN  IF c.kind = "ok"
             THEN Ok([select |-> <<owner_name, c.val.name>>])
             ELSE c

\* lines 208-214: select_fks(name, owner_name); ap is all_pks, p is
\* cls.__dummies__.pks
select_fks(ap, p, nm, owner_name) ==
    IF ap # None
    THEN IF owner_name \in DOMAIN ap[1] /\ nm \in DOMAIN ap[1][owner_name]
         THEN Ok(ap[1][owner_name][nm])
         ELSE Err("KeyError", nm)
    ELSE LET c == get_pk(p, owner_name, nm)
         IN  IF c.kind = "ok"
             THEN Ok([select |-> <<owner_name, c.val.name>>])
             ELSE c

\* a plausible slip: line 210 reads all_pks.setdefault(owner_name, {})[name],
\* which gives the key domain an entry for an owner it lacks
KeyDomainSetDefault(ap, owners) ==
    IF ap = None THEN ap
    ELSE LET names == {owners[i].owner.tablename : i \in DOMAIN owners}
         IN  Some([t \in DOMAIN ap[1] \cup names |->
                     IF t \in DOMAIN ap[1] THEN ap[1][t] ELSE <<>>])

\* lines 209-210, 217-220: the key domain after select_fks has run for the
\* columns of fk_owners; all_pks[owner_name][name] subscripts a dict twice,
\* which stores nothing in it
KeyDomainAfter(ap, owners) == ap

\* lines 216-221: _create_coproduct(all_pks, **kw)
_create_coproduct(tbl, p, f, ap, kw) ==
    LET o == get_fk_owners(tbl, f, kw)
        e(i) == select_fks(ap, p, o.val[i].name, o.val[i].owner.tablename)
    IN  IF o.kind # "ok" THEN o
        ELSE IF \E i \in DOMAIN o.val : e(i).kind # "ok"
        THEN Err("KeyError", "all_pks")
        ELSE Ok([i \in DOMAIN o.val |->
                    [name |-> o.val[i].name, values |-> e(i).val]])

-----------------------------------------------------------------------------
(* Key domains (the Pks type, __init__.py line 33): table name -> column  *)
(* name -> list of int.                                                    *)

Ids(d, base) == [i \in 1..d |-> base + i]

FkColsInto(c, t) ==
    {col \in UNION {{k.columns[j] : j \in DOMAIN k.columns} :
                        k \in {Classes(c)[i] : i \in DOMAIN Classes(c)}} :
        IsFk(col) /\ col.foreign_key[1] = t}

\* as tests/test_unit.py uses all_pks: under each owner table, one list of
\* d keys for every name a foreign key into that table goes by
ByReference(c, d) ==
    [t \in {x \in TableNames(c) : FkColsInto(c, x) # {}} |->
        [nm \in {col.name : col \in FkColsInto(c, t)} |-> Ids(d, 0)]]

TableIndex(c, t) ==
    IF t \in TableNames(c)
    THEN CHOOSE i \in DOMAIN Classes(c) : Classes(c)[i].tablename = t
    ELSE 0

\* a snapshot of stored rows: under each table, the values of each of its
\* own columns; a foreign-key column holds keys of its owner
Snapshot(c, d) ==
    [t \in TableNames(c) |->
        [nm \in Keys(ClassOf(c, t).columns) |->
            LET col == Get(ClassOf(c, t).columns, nm)
            IN  IF IsFk(col)
                THEN Ids(d, d * TableIndex(c, col.foreign_key[1]))
                ELSE Ids(d, d * TableIndex(c, t))]]

\* a key domain without the entry of table t
Without(dom, t) == [u \in DOMAIN dom \ {t} |-> dom[u]]

KeyDomains(c) ==
    {None} \cup {Some(ByReference(c, d)) : d \in 0..MaxD}
           \cup {Some(Snapshot(c, d)) : d \in 1..MaxSnap}
           \cup {Some(Without(ByReference(c, 1), t)) : t \in DOMAIN ByReference(c, 1)}

LegalKwargs ==
    UNION {[S -> BOOLEAN] : S \in SUBSET RequiredKeys}

KwargsSet == LegalKwargs \cup {[primary |-> TRUE]}

-----------------------------------------------------------------------------
(* __init__.py: itertools.product over the coproduct (lines 240-243) *)

Doms(co) == [i \in DOMAIN co |-> co[i].values]

\* a plausible slip: a product of no lists is taken to be empty
ProductFirstNoLists(doms) ==
    IF Len(doms) = 0 \/ \E i \in DOMAIN doms : Len(doms[i]) = 0
    THEN [kind |-> "stop", val |-> <<>>]
    ELSE [kind |-> "yield", val |-> [i \in DOMAIN doms |-> 1]]

\* the first tuple of itertools.product(*doms): none when a list is empty
ProductFirst(doms) ==
    IF \E i \in DOMAIN doms : Len(doms[i]) = 0
    THEN [kind |-> "stop", val |-> <<>>]
    ELSE [kind |-> "yield", val |-> [i \in DOMAIN doms |-> 1]]

\* a plausible slip: the last list is never advanced past its second entry
ProductStepShort(doms, idx) ==
    LET movable == {i \in DOMAIN doms : idx[i] < Len(doms[i]) /\ idx[i] < 2}
        m == CHOOSE i \in movable : \A j \in movable : j <= i
    IN  IF movable = {}
        THEN [kind |-> "stop", val |-> <<>>]
        ELSE [kind |-> "yield",
              val |-> [i \in DOMAIN doms |->
                          IF i < m THEN idx[i] ELSE IF i = m THEN idx[i] + 1 ELSE 1]]

\* the tuple after position idx: the rightmost list that can advance does,
\* the lists right of it start again
ProductStep(doms, idx) ==
    LET movable == {i \in DOMAIN doms : idx[i] < Len(doms[i])}
        m == CHOOSE i \in movable : \A j \in movable : j <= i
    IN  IF movable = {}
        THEN [kind |-> "stop", val |-> <<>>]
        ELSE [kind |-> "yield",
              val |-> [i \in DOMAIN doms |->
                          IF i < m THEN idx[i] ELSE IF i = m THEN idx[i] + 1 ELSE 1]]

\* line 241: {key: value for key, value in zip(coproduct, coord)}
FkDict(co, idx) ==
    [nm \in Keys(co) |->
        LET i == CHOOSE j \in DOMAIN co : co[j].name = nm
        IN  co[i].values[idx[i]]]

-----------------------------------------------------------------------------
(* The generator object and its consumer. *)

NoRet == [op |-> "none", cls |-> "", kwargs |-> <<>>, reg |-> 0, res |-> Ok(<<>>)]

NoRegistry ==
    /\ case = "none"
    /\ reg = 0
    /\ tables = <<>>
    /\ tablenames = {}
    /\ fks = <<>>
    /\ pks = <<>>
    /\ pknames = {}
    /\ fknames = {}
    /\ all_pks = None
    /\ ret = NoRet

NoGenerator ==
    /\ kind = "none"
    /\ n = 0
    /\ labels = <<>>
    /\ start = None
    /\ stop = None
    /\ cur = <<>>
    /\ pending = {}
    /\ status = "none"
    /\ cnt = 0
    /\ last = <<>>
    /\ seen = {}
    /\ raised = ""
    /\ cls = ""
    /\ kwargs = <<>>
    /\ coproduct = <<>>
    /\ frames = <<>>
    /\ setorder = <<>>

InitSeq ==
    /\ kind \in {"count", "_triangled", "_squared", "triangled", "squared"}
    /\ labels \in IF kind = "triangled" THEN LabelLists(MaxN)
                  ELSE IF kind = "squared" THEN LabelLists(MaxSqN)
                  ELSE {<<>>}
    /\ n \in IF kind = "count" THEN {1}
             ELSE IF kind = "_squared" THEN (0 - MaxNeg)..MaxSqN
             ELSE IF kind = "_triangled" THEN (0 - MaxNeg)..MaxN
             ELSE {Len(labels)}
    /\ start \in OptBounds
    /\ stop \in OptBounds
    /\ cur = <<>>
    /\ pending = {}
    /\ status = "fresh"
    /\ cnt = 0
    /\ last = <<>>
    /\ seen = {}
    /\ raised = ""
    /\ cls = ""
    /\ kwargs = <<>>
    /\ coproduct = <<>>
    /\ frames = <<>>
    /\ setorder = <<>>
    /\ NoRegistry

Live == status \in {"fresh", "running"}

\* the consumer stops taking from an endless generator after MaxUnbounded items
MayTake == Live /\ (stop # None \/ cnt < MaxUnbounded)

Yield(item) ==
    /\ status' = "running"
    /\ cnt' = cnt + 1
    /\ last' = item
    /\ seen' = seen \cup {item}
    /\ raised' = raised

\* the generator returns (StopIteration) or raises exc
End(exc) ==
    /\ status' = IF exc = "" THEN "done" ELSE "error"
    /\ raised' = exc
    /\ UNCHANGED <<cnt, last, seen>>

EndSeq(r) ==
    End(IF r.kind = "stop" THEN ""
        ELSE IF r.kind = "recursion" THEN "RecursionError"
        ELSE "ValueError")

\* next() on count(start, stop); the integer k is recorded as <<k>>
CountNext ==
    /\ kind = "count"
    /\ MayTake
    /\ LET r == IF cur = <<>> THEN CountFirst(start, stop)
                ELSE CountResume(cur[1], stop)
       IN  IF r.kind = "yield"
           THEN cur' = <<r.val>> /\ Yield(<<r.val>>)
           ELSE cur' = cur /\ EndSeq(r)
    /\ UNCHANGED <<kind, n, labels, start, stop, pending, iterVars, regVars, all_pks, ret, pairVars>>

\* next() on _triangled(n, start=start, stop=stop)
TriangledNext ==
    /\ kind = "_triangled"
    /\ MayTake
    /\ LET r == _triangled(n, start, stop, cur)
       IN  IF r.kind = "yield"
           THEN cur' = r.val /\ Yield(r.val)
           ELSE cur' = cur /\ EndSeq(r)
    /\ UNCHANGED <<kind, n, labels, start, stop, pending, iterVars, regVars, all_pks, ret, pairVars>>

\* next() on _squared(n, start=start, stop=stop), lines 169-170: the set of
\* permutations is iterated in an order the build decides
SquaredNext ==
    /\ kind = "_squared"
    /\ MayTake
    /\ IF pending # {}
       THEN \E p \in pending :
                /\ pending' = pending \ {p}
                /\ cur' = cur
                /\ Yield(p)
       ELSE LET r == _triangled(n, start, stop, cur)
            IN  IF r.kind = "yield"
                THEN \E p \in Perms(r.val) :
                         /\ pending' = Perms(r.val) \ {p}
                         /\ cur' = r.val
                         /\ Yield(p)
                ELSE cur' = cur /\ pending' = pending /\ EndSeq(r)
    /\ UNCHANGED <<kind, n, labels, start, stop, iterVars, regVars, all_pks, ret, pairVars>>

\* next() on triangled(*labels, start=start, stop=stop), lines 182-186
LabelledTriangledNext ==
    /\ kind = "triangled"
    /\ MayTake
    /\ LET r == _triangled(Len(labels), start, stop, cur)
       IN  IF r.kind = "yield"
           THEN cur' = r.val /\ Yield(Labelled(labels, r.val))
           ELSE cur' = cur /\ EndSeq(r)
    /\ UNCHANGED <<kind, n, labels, start, stop, pending, iterVars, regVars, all_pks, ret, pairVars>>

\* next() on squared(*labels, start=start, stop=stop), lines 196-200
LabelledSquaredNext ==
    /\ kind = "squared"
    /\ MayTake
    /\ IF pending # {}
       THEN \E p \in pending :
                /\ pending' = pending \ {p}
                /\ cur' = cur
                /\ Yield(Labelled(labels, p))
       ELSE LET r == _triangled(Len(labels), start, stop, cur)
            IN  IF r.kind = "yield"
                THEN \E p \in Perms(r.val) :
                         /\ pending' = Perms(r.val) \ {p}
                         /\ cur' = r.val
                         /\ Yield(Labelled(labels, p))
                ELSE cur' = cur /\ pending' = pending /\ EndSeq(r)
    /\ UNCHANGED <<kind, n, labels, start, stop, iterVars, regVars, all_pks, ret, pairVars>>

NextSeq ==
    \/ CountNext
    \/ TriangledNext
    \/ SquaredNext
    \/ LabelledTriangledNext
    \/ LabelledSquaredNext

SpecSeq == InitSeq /\ [][NextSeq]_vars

-----------------------------------------------------------------------------
(* __init__.py: the registry of create_dummy_meta and the class methods   *)
(* of DummyMixins.                                                         *)

\* lines 405-410: the class attributes of a new DummyMeta
InitRegistry ==
    /\ case \in CaseNames
    /\ reg = 0
    /\ tables = <<>>
    /\ tablenames = {}
    /\ fks = <<>>
    /\ pks = <<>>
    /\ pknames = {}
    /\ fknames = {}

\* a plausible slip: line 84 updates fknames with the primary-key names
_registerTablePkNamesTwice ==
    /\ reg < Len(Classes(case))
    /\ LET T == Classes(case)[reg + 1]
           name == T.tablename
       IN  /\ tablenames' = tablenames \cup {name}
           /\ pks' = (name :> SelectSeq(T.columns, IsPk)) @@ pks
           /\ fks' = (name :> SelectSeq(T.columns, IsFk)) @@ fks
           /\ pknames' = pknames \cup Keys(SelectSeq(T.columns, IsPk))
           /\ fknames' = fknames \cup Keys(SelectSeq(T.columns, IsPk))
           /\ tables' = (name :> [tablename |-> name]) @@ tables
    /\ reg' = reg + 1
    /\ UNCHANGED <<case, all_pks, ret, seqVars, iterVars, pairVars>>

\* lines 427-437 and 64-85: DummyMeta.__new__ creates the next class of the
\* case (cases.py line 73, in order) and _registerTable records it
_registerTable ==
    /\ reg < Len(Classes(case))
    /\ LET T == Classes(case)[reg + 1]
           name == T.tablename
       IN  /\ tablenames' = tablenames \cup {name}
           /\ pks' = (name :> SelectSeq(T.columns, IsPk)) @@ pks
           /\ fks' = (name :> SelectSeq(T.columns, IsFk)) @@ fks
           /\ pknames' = pknames \cup Keys(SelectSeq(T.columns, IsPk))
           /\ fknames' = fknames \cup Keys(SelectSeq(T.columns, IsFk))
           /\ tables' = (name :> [tablename |-> name]) @@ tables
    /\ reg' = reg + 1
    /\ UNCHANGED <<case, all_pks, ret, seqVars, iterVars, pairVars>>

\* the result of a call, with the number of classes created when it was made
Called(o, t, kw, r) ==
    ret' = [op |-> o, cls |-> t, kwargs |-> kw, reg |-> reg, res |-> r]

\* cls.get_fks(**kw) on a created class
GetFksCall ==
    /\ \E t \in DOMAIN tables, kw \in KwargsSet :
           Called("get_fks", t, kw, get_fks(fks[t], kw))
    /\ UNCHANGED <<regVars, all_pks, seqVars, iterVars, pairVars>>

\* cls.get_fk_owners(**kw)
GetFkOwnersCall ==
    /\ \E t \in DOMAIN tables, kw \in KwargsSet :
           Called("get_fk_owners", t, kw, get_fk_owners(tables, fks[t], kw))
    /\ UNCHANGED <<regVars, all_pks, seqVars, iterVars, pairVars>>

\* cls.get_pks(), line 162
GetPksCall ==
    /\ \E t \in DOMAIN tables : Called("get_pks", t, <<>>, Ok(pks[t]))
    /\ UNCHANGED <<regVars, all_pks, seqVars, iterVars, pairVars>>

\* cls._create_coproduct(all_pks, **kw)
CreateCoproductCall ==
    /\ \E t \in DOMAIN tables, kw \in KwargsSet :
           /\ Called("_create_coproduct", t, kw,
                     _create_coproduct(tables, pks, fks[t], all_pks, kw))
           /\ LET o == get_fk_owners(tables, fks[t], kw)
              IN  all_pks' = IF o.kind = "ok"
                             THEN KeyDomainAfter(all_pks, o.val)
                             ELSE all_pks
    /\ UNCHANGED <<regVars, seqVars, iterVars, pairVars>>

InitSchema ==
    /\ InitRegistry
    /\ all_pks \in KeyDomains(case)
    /\ ret = NoRet
    /\ NoGenerator

NextSchema ==
    \/ _registerTable
    \/ GetFksCall
    \/ GetFkOwnersCall
    \/ GetPksCall
    \/ CreateCoproductCall

SpecSchema == InitSchema /\ [][NextSchema]_vars

-----------------------------------------------------------------------------
(* __init__.py: the generators _create_iter_fks and create_iter_fks *)

\* cls._create_iter_fks(all_pks, **kw): the generator object is made, its
\* body has not run
IterFksCall ==
    /\ kind = "none"
    /\ \E t \in DOMAIN tables, kw \in KwargsSet :
           /\ cls' = t
           /\ kwargs' = kw
    /\ kind' = "_create_iter_fks"
    /\ status' = "fresh"
    /\ UNCHANGED <<n, labels, start, stop, cur, pending, cnt, last, seen, raised,
                   coproduct, regVars, all_pks, ret, pairVars>>

\* next() on the generator of _create_iter_fks, lines 239-243
IterFksNext ==
    /\ kind = "_create_iter_fks"
    /\ Live
    /\ IF status = "fresh"
       THEN LET co == _create_coproduct(tables, pks, fks[cls], all_pks, kwargs)
                o == get_fk_owners(tables, fks[cls], kwargs)
                f == ProductFirst(Doms(co.val))
            IN  /\ all_pks' = IF o.kind = "ok"
                               THEN KeyDomainAfter(all_pks, o.val)
                               ELSE all_pks
                /\ IF co.kind # "ok"
                   THEN coproduct' = coproduct /\ cur' = cur /\ End(co.kind)
                   ELSE /\ coproduct' = co.val
                        /\ IF f.kind = "yield"
                           THEN cur' = f.val /\ Yield(FkDict(co.val, f.val))
                           ELSE cur' = cur /\ End("")
       ELSE LET r == ProductStep(Doms(coproduct), cur)
            IN  /\ coproduct' = coproduct
                /\ all_pks' = all_pks
                /\ IF r.kind = "yield"
                   THEN cur' = r.val /\ Yield(FkDict(coproduct, r.val))
                   ELSE cur' = cur /\ End("")
    /\ UNCHANGED <<kind, n, labels, start, stop, pending, cls, kwargs, regVars, ret, pairVars>>

\* cls.create_iter_fks(all_pks): the generator object is made
RowIterCall ==
    /\ kind = "none"
    /\ \E t \in DOMAIN tables : cls' = t
    /\ kind' = "create_iter_fks"
    /\ status' = "fresh"
    /\ UNCHANGED <<n, labels, start, stop, cur, pending, cnt, last, seen, raised,
                   kwargs, coproduct, regVars, all_pks, ret, pairVars>>

\* next() on the generator of create_iter_fks, lines 363-369: pks is the
\* dict of get_pks(), and next() of a dict raises TypeError
RowIterNext ==
    /\ kind = "create_iter_fks"
    /\ Live
    /\ End("TypeError")
    /\ UNCHANGED <<kind, n, labels, start, stop, cur, pending, iterVars, regVars, all_pks, ret, pairVars>>

InitIter ==
    /\ InitRegistry
    /\ all_pks \in KeyDomains(case) \ {None}
    /\ ret = NoRet
    /\ NoGenerator

NextIter ==
    \/ _registerTable
    \/ IterFksCall
    \/ IterFksNext
    \/ RowIterCall
    \/ RowIterNext

SpecIter == InitIter /\ [][NextIter]_vars

-----------------------------------------------------------------------------
(* seq.py: two generator objects made by separate calls and consumed in    *)
(* turn.  A call of a generator function makes a generator object with a   *)
(* frame of its own, holding the arguments and the position of that call;  *)
(* the module keeps no state outside the frames.  set(permutations(item))  *)
(* holds tuples of int, whose hashes the interpreter does not salt: a      *)
(* build iterates equal sets built the same way in the same order.         *)

\* the dimensions of the sequencers run in pairs
PairDims == 1..2

\* the bounds tried: unset, or MaxPairBound; a stop just below it as well,
\* which a start of MaxPairBound exceeds
PairStarts == {None, Some(MaxPairBound)}

PairStops == {None, Some(MaxPairBound - 1), Some(MaxPairBound)}

\* the generator objects a call can return, not yet started
Frames ==
    {[kind |-> k, n |-> d, labels |-> ls, start |-> s, stop |-> e,
      cur |-> <<>>, pos |-> 0, status |-> "fresh", cnt |-> 0,
      last |-> <<>>, raised |-> ""] :
        k \in {"count"}, d \in {1}, ls \in {<<>>},
        s \in PairStarts, e \in PairStops}
    \cup
    {[kind |-> k, n |-> d, labels |-> <<>>, start |-> s, stop |-> e,
      cur |-> <<>>, pos |-> 0, status |-> "fresh", cnt |-> 0,
      last |-> <<>>, raised |-> ""] :
        k \in {"_triangled", "_squared"}, d \in PairDims,
        s \in PairStarts, e \in PairStops}
    \cup
    {[kind |-> k, n |-> d, labels |-> SubSeq(LabelNames, 1, d),
      start |-> s, stop |-> e,
      cur |-> <<>>, pos |-> 0, status |-> "fresh", cnt |-> 0,
      last |-> <<>>, raised |-> ""] :
        k \in {"triangled", "squared"}, d \in PairDims,
        s \in PairStarts, e \in PairStops}

\* a plausible slip: the position is kept in one place for every call
FrameShared(fr, i) ==
    [fr[i] EXCEPT !.cur = fr[1].cur, !.pos = fr[1].pos, !.status = fr[1].status]

\* lines 115-200: the body of a generator resumes at the position its own
\* frame holds
Frame(fr, i) == fr[i]

\* the sequences that list the set S once each
Orders(S) ==
    {q \in [1..Cardinality(S) -> S] : \A i, j \in DOMAIN q : q[i] = q[j] => i = j}

\* a plausible slip: the order is drawn anew each time a set is iterated
SetOrdersAnew(so, t) == Orders(Perms(t))

\* line 170: the orders in which the build can iterate
\* set(itertools.permutations(t)): the order it took before, any order when it
\* has not iterated this set yet
SetOrders(so, t) ==
    IF t \in DOMAIN so THEN {so[t]} ELSE Orders(Perms(t))

\* lines 184, 198: the item a frame yields for the tuple t
Item(f, t) ==
    IF f.kind \in {"triangled", "squared"} THEN Labelled(f.labels, t) ELSE t

FrameYield(f, c, p, item) ==
    [f EXCEPT !.cur = c, !.pos = p, !.status = "running",
              !.cnt = f.cnt + 1, !.last = item]

FrameEnd(f, r) ==
    [f EXCEPT !.status = IF r.kind = "stop" THEN "done" ELSE "error",
              !.raised = IF r.kind = "stop" THEN ""
                         ELSE IF r.kind = "recursion" THEN "RecursionError"
                         ELSE "ValueError"]

\* next() on the i-th generator object
PairNext(i) ==
    LET f == Frame(frames, i)
    IN  /\ f.status \in {"fresh", "running"}
        /\ f.stop # None \/ f.cnt < MaxPairTake
        /\ IF f.kind \in {"count", "_triangled", "triangled"}
           THEN LET r == _triangled(f.n, f.start, f.stop, f.cur)
                IN  /\ frames' = [frames EXCEPT ![i] =
                           IF r.kind = "yield"
                           THEN FrameYield(f, r.val, 0, Item(f, r.val))
                           ELSE FrameEnd(f, r)]
                    /\ setorder' = setorder
           ELSE IF f.cur \in DOMAIN setorder /\ f.pos < Len(setorder[f.cur])
           THEN /\ frames' = [frames EXCEPT ![i] =
                       FrameYield(f, f.cur, f.pos + 1,
                                  Item(f, setorder[f.cur][f.pos + 1]))]
                /\ setorder' = setorder
           ELSE LET r == _triangled(f.n, f.start, f.stop, f.cur)
                IN  IF r.kind = "yield"
                    THEN \E ord \in SetOrders(setorder, r.val) :
                             /\ setorder' = (r.val :> ord) @@ setorder
                             /\ frames' = [frames EXCEPT ![i] =
                                    FrameYield(f, r.val, 1, Item(f, ord[1]))]
                    ELSE /\ frames' = [frames EXCEPT ![i] = FrameEnd(f, r)]
                         /\ setorder' = setorder
        /\ UNCHANGED <<seqVars, iterVars, regVars, all_pks, ret>>

\* the consumer drops the i-th generator object before its end
Abandon(i) ==
    /\ frames[i].status \in {"fresh", "running"}
    /\ frames' = [frames EXCEPT ![i].status = "closed"]
    /\ UNCHANGED <<setorder, seqVars, iterVars, regVars, all_pks, ret>>

InitPair ==
    /\ kind = "none" /\ n = 0 /\ labels = <<>> /\ start = None /\ stop = None
    /\ cur = <<>> /\ pending = {} /\ status = "none" /\ cnt = 0
    /\ last = <<>> /\ seen = {} /\ raised = ""
    /\ cls = "" /\ kwargs = <<>> /\ coproduct = <<>>
    /\ NoRegistry
    /\ frames \in [1..2 -> Frames]
    /\ setorder = <<>>

NextPair ==
    \/ \E i \in 1..2 : PairNext(i)
    \/ \E i \in 1..2 : Abandon(i)

SpecPair == InitPair /\ [][NextPair]_vars

-----------------------------------------------------------------------------
(* Properties of the sequencers. *)


IntBounds == start # None /\ stop # None

Ordered == IntBounds /\ start[1] <= stop[1]

IsNonDecreasing(t) == \A i \in 1..(Len(t) - 1) : t[i] <= t[i + 1]

Tuples(d, lo, hi) == [1..d -> lo..hi]

RECURSIVE Power(_, _)
Power(b, e) == IF e = 0 THEN 1 ELSE b * Power(b, e - 1)

C2_TriangledComplete ==
    (kind = "_triangled" /\ n >= 1 /\ Ordered /\ status = "done") =>
        seen = {t \in Tuples(n, start[1], stop[1]) : IsNonDecreasing(t)}

\* C3: for n >= 1 and integer bounds start <= stop, _squared(n, start, stop)
\* yields every tuple of [start, stop]^n exactly once and nothing else:
\* (stop - start + 1)^n tuples in all.
C3_SquaredProduct ==
    (kind = "_squared" /\ n >= 1 /\ Ordered) =>
        /\ Cardinality(seen) = cnt
        /\ seen \subseteq Tuples(n, start[1], stop[1])
        /\ status = "done" =>
              /\ seen = Tuples(n, start[1], stop[1])
              /\ cnt = Power(stop[1] - start[1] + 1, n)

\* C4: for integers start <= stop, count(start, stop) yields start, start + 1,
\* ..., stop in ascending order, stop - start + 1 values, and then ends; with
\* start not given the first value is 1.
C4_CountRange ==
    /\ (kind = "count" /\ Ordered) =>
          /\ status # "error"
          /\ cnt >= 1 => last = <<start[1] + cnt - 1>>
          /\ status = "done" => cnt = stop[1] - start[1] + 1
    /\ (kind = "count" /\ start = None /\ cnt = 1) => last = <<1>>

-----------------------------------------------------------------------------
(* Properties of the foreign-key iteration. *)

Range(q) == {q[i] : i \in DOMAIN q}

NoDuplicates(q) == Cardinality(Range(q)) = Len(q)

\* the mapped class the generator was called on, as cases.py declares it
Declared == ClassOf(case, cls).columns

OnlyPrimary(kw) ==
    /\ DOMAIN kw \subseteq RequiredKeys
    /\ Flag(kw, "only_primary") /\ ~Flag(kw, "exclude_primary")

ExcludePrimary(kw) ==
    /\ DOMAIN kw \subseteq RequiredKeys
    /\ Flag(kw, "exclude_primary") /\ ~Flag(kw, "only_primary")

\* the declared foreign-key columns the keyword arguments select
Selected(kw) ==
    IF OnlyPrimary(kw) THEN SelectSeq(Declared, IsPkFk)
    ELSE IF ExcludePrimary(kw) THEN SelectSeq(Declared, IsPureFk)
    ELSE SelectSeq(Declared, IsFk)

\* the list of all_pks a declared foreign-key column draws from
Drawn(col) == all_pks[1][col.foreign_key[1]][col.name]

Yielding == kind = "_create_iter_fks" /\ status \in {"running", "done"}

\* C5: when the k >= 1 foreign keys selected by only_primary each draw from
\* a duplicate-free list of d keys, the finished stream of _create_iter_fks
\* has yielded d^k dictionaries, all distinct, d^(k-1) of them with a given
\* column at a given value and d^(k-2) with two given columns at given values.
C5_FullProduct ==
    (Yielding /\ OnlyPrimary(kwargs) /\ Len(Selected(kwargs)) >= 1) =>
        LET sel == Selected(kwargs)
            k == Len(sel)
            d == Len(Drawn(sel[1]))
        IN  (\A i \in 1..k : Len(Drawn(sel[i])) = d /\ NoDuplicates(Drawn(sel[i]))) =>
                /\ Cardinality(seen) = cnt
                /\ status = "done" =>
                      /\ cnt = Power(d, k)
                      /\ \A i \in 1..k : \A v \in Range(Drawn(sel[i])) :
                            Cardinality({x \in seen : x[sel[i].name] = v})
                                = Power(d, k - 1)
                      /\ \A i, j \in 1..k :
                            i < j =>
                              \A v \in Range(Drawn(sel[i])), w \in Range(Drawn(sel[j])) :
                                  Cardinality({x \in seen : x[sel[i].name] = v
                                                         /\ x[sel[j].name] = w})
                                      = Power(d, k - 2)

C5_Witness ==
    /\ Yielding /\ status = "done"
    /\ case = "ormConnected" /\ cls = "a"
    /\ OnlyPrimary(kwargs)
    /\ Len(Drawn(Declared[2])) = 4
    /\ cnt = 256
    /\ Cardinality({x \in seen : x["id_b"] = 2 /\ x["id_c"] = 3}) = 16

C7_RowDictionaries ==
    (/\ kind = "create_iter_fks"
     /\ reg = Len(Classes(case))
     /\ \E i \in DOMAIN Declared : IsPk(Declared[i])
     /\ \A i \in DOMAIN Declared :
            IsFk(Declared[i]) => Declared[i].foreign_key[1] \in DOMAIN all_pks[1]) =>
        /\ status # "error"
        /\ \A x \in seen :
              DOMAIN x = Keys(SelectSeq(Declared, IsPk)) \cup Keys(SelectSeq(Declared, IsFk))

Min(S) == CHOOSE x \in S : \A y \in S : x <= y

Max(S) == CHOOSE x \in S : \A y \in S : y <= x

RECURSIVE SquaredAt(_, _, _, _, _)
\* the tuples _squared(d, start=s, stop=e) can yield as its k-th item after
\* the triangle tuple c: the permutations of the triangle tuple k falls to
SquaredAt(d, s, e, c, k) ==
    LET r == _triangled(d, s, e, c)
    IN  IF r.kind # "yield" THEN {}
        ELSE IF k <= Cardinality(Perms(r.val)) THEN Perms(r.val)
        ELSE SquaredAt(d, s, e, r.val, k - Cardinality(Perms(r.val)))

\* seq.py lines 196-200: squared(*labels, start=s, stop=e), its k-th dictionary
LabelledSquaredAt(ls, s, e, k) ==
    {Labelled(ls, t) : t \in SquaredAt(Len(ls), s, e, <<>>, k)}

\* C8: the primary-foreign and the pure-foreign stream are the labelled
\* squared sequencer over the selected columns, with start the greatest of
\* the columns' least keys and stop the least of their greatest keys: the
\* k-th dictionary of the stream is the k-th dictionary of that sequencer,
\* and the stream ends where the sequencer ends.
C8_StreamIsSquared ==
    (/\ Yielding
     /\ OnlyPrimary(kwargs) \/ ExcludePrimary(kwargs)
     /\ Len(coproduct) >= 1
     /\ \A i \in DOMAIN coproduct : Len(coproduct[i].values) >= 1) =>
        LET names == [i \in DOMAIN coproduct |-> coproduct[i].name]
            lo == Max({Min(Range(coproduct[i].values)) : i \in DOMAIN coproduct})
            hi == Min({Max(Range(coproduct[i].values)) : i \in DOMAIN coproduct})
        IN  /\ status = "running" =>
                  last \in LabelledSquaredAt(names, Some(lo), Some(hi), cnt)
            /\ status = "done" =>
                  LabelledSquaredAt(names, Some(lo), Some(hi), cnt + 1) = {}

-----------------------------------------------------------------------------
(* Properties of the class methods. *)

BothFlags(kw) ==
    /\ DOMAIN kw = RequiredKeys
    /\ kw["only_primary"] /\ kw["exclude_primary"]

\* C10: get_fks, get_fk_owners and _create_coproduct called with both
\* only_primary and exclude_primary set fail with the ValueError "Cannot use
\* both ..." and return no mapping.
C10_BothFlagsRejected ==
    (ret.op \in {"get_fks", "get_fk_owners", "_create_coproduct"}
        /\ BothFlags(ret.kwargs)) =>
        /\ ret.res.kind = "ValueError"
        /\ ret.res.msg = "Cannot use both"
        /\ ret.res.val = <<>>

C10_Witness ==
    /\ ret.op = "_create_coproduct"
    /\ BothFlags(ret.kwargs)
    /\ ret.res.kind = "ValueError"

\* every class of the case is created and every foreign key of a created
\* class references a created class
FullyRegistered ==
    /\ reg = Len(Classes(case))
    /\ \A t \in DOMAIN tables : \A i \in DOMAIN fks[t] :
          fks[t][i].foreign_key[1] \in DOMAIN tables

Modes == {kw \in LegalKwargs : ~BothFlags(kw)}

\* C11: a result of get_fk_owners(mode) has exactly the column names of
\* get_fks(mode) and gives each column the registered table its foreign key
\* references; on a fully registered schema, cyclic ones included, the call
\* returns such a result for every table and mode.
C11_OwnersOfFks ==
    /\ (ret.op = "get_fk_owners" /\ ret.res.kind = "ok") =>
          LET cols == ClassOf(case, ret.cls).columns
              f == get_fks(fks[ret.cls], ret.kwargs)
              o == ret.res.val
          IN  /\ f.kind = "ok"
              /\ Len(o) = Len(f.val)
              /\ {o[i].name : i \in DOMAIN o} = Keys(f.val)
              /\ \A i \in DOMAIN o :
                    /\ Get(cols, o[i].name).foreign_key[1] \in DOMAIN tables
                    /\ o[i].owner = tables[Get(cols, o[i].name).foreign_key[1]]
                    /\ o[i].owner.tablename = Get(cols, o[i].name).foreign_key[1]
    /\ FullyRegistered =>
          \A t \in DOMAIN tables : \A kw \in Modes :
              get_fk_owners(tables, fks[t], kw).kind = "ok"

C11_Witness ==
    /\ case = "ormCycle" /\ FullyRegistered
    /\ ret.op = "get_fk_owners" /\ ret.cls = "a" /\ ret.kwargs = <<>>
    /\ ret.res = Ok(<<[name |-> "id_parent", owner |-> [tablename |-> "d"]]>>)

\* C12: with a key domain supplied, a result of _create_coproduct has exactly
\* one entry per foreign-key column the mode selects, and the entry of a
\* column referencing column oc of table T is the list key_domain[T][oc]
\* (stated for the key domains that have that list).
C12_ByReferencedColumn ==
    (ret.op = "_create_coproduct" /\ all_pks # None /\ ret.res.kind = "ok") =>
        LET cols == ClassOf(case, ret.cls).columns
            f == get_fks(fks[ret.cls], ret.kwargs)
            co == ret.res.val
        IN  /\ Len(co) = Len(f.val)
            /\ {co[i].name : i \in DOMAIN co} = Keys(f.val)
            /\ \A i \in DOMAIN co :
                  LET col == Get(cols, co[i].name)
                      T == col.foreign_key[1]
                      oc == col.foreign_key[2]
                  IN  (T \in DOMAIN all_pks[1] /\ oc \in DOMAIN all_pks[1][T]) =>
                          co[i].values = all_pks[1][T][oc]

\* C13: when a key domain is supplied and lacks the owner table of a
\* foreign key the mode selects, _create_coproduct fails with an error
\* (KeyError) and returns no mapping.
C13_MissingOwnerFails ==
    (/\ ret.op = "_create_coproduct"
     /\ ret.reg = reg
     /\ all_pks # None
     /\ LET o == get_fk_owners(tables, fks[ret.cls], ret.kwargs)
        IN  /\ o.kind = "ok"
            /\ \E i \in DOMAIN o.val :
                  o.val[i].owner.tablename \notin DOMAIN all_pks[1]) =>
        /\ ret.res.kind = "KeyError"
        /\ ret.res.val = <<>>

C13_Witness ==
    /\ case = "ormConnected" /\ FullyRegistered
    /\ all_pks # None
    /\ "a" \in DOMAIN all_pks[1] /\ "b" \notin DOMAIN all_pks[1]
    /\ ret.op = "_create_coproduct" /\ ret.cls = "a"
    /\ ret.kwargs = [only_primary |-> TRUE]
    /\ ret.res.kind = "KeyError"

\* C14: with no key domain, _create_coproduct on a table of a fully
\* registered schema returns, for every mode, one deferred marker per
\* selected foreign-key column: a select that names the owner table and the
\* referenced column of the owner.
C14_DeferredMarkers ==
    (/\ ret.op = "_create_coproduct"
     /\ ret.reg = reg
     /\ all_pks = None
     /\ FullyRegistered
     /\ ret.kwargs \in Modes) =>
        LET cols == ClassOf(case, ret.cls).columns
            f == get_fks(fks[ret.cls], ret.kwargs)
            co == ret.res.val
        IN  /\ ret.res.kind = "ok"
            /\ Len(co) = Len(f.val)
            /\ \A i \in DOMAIN co :
                  /\ co[i].name = f.val[i].name
                  /\ co[i].values = [select |-> Get(cols, co[i].name).foreign_key]

\* some class of the case has a foreign key into a table no class declares
Dangling ==
    \E i \in DOMAIN Classes(case) : \E j \in DOMAIN Classes(case)[i].columns :
        LET col == Classes(case)[i].columns[j]
        IN  IsFk(col) /\ col.foreign_key[1] \notin TableNames(case)

\* C15: a schema with a foreign key into a table that is never registered is
\* refused while its tables are registered: its registration never completes,
\* and no call of get_fk_owners or _create_coproduct on it is the first to
\* report the missing owner.
C15_RefusedAtRegistration ==
    Dangling =>
        /\ reg < Len(Classes(case))
        /\ ~(/\ ret.op \in {"get_fk_owners", "_create_coproduct"}
             /\ ret.res.kind = "NoReferencedTableError")

-----------------------------------------------------------------------------
(* Further properties of the sequencers. *)

Sequencers == {"count", "_triangled", "_squared", "triangled", "squared"}

\* C16: with integers start > stop, count and, for n >= 1, _triangled,
\* _squared, triangled and squared yield nothing: the first next() raises
\* ValueError.
C16_StartAfterStop ==
    (/\ kind \in Sequencers
     /\ kind = "count" \/ n >= 1
     /\ IntBounds /\ start[1] > stop[1]) =>
        /\ cnt = 0 /\ seen = {}
        /\ status \in {"fresh", "error"}
        /\ status = "error" => raised = "ValueError"

C16_Witness ==
    /\ kind = "squared" /\ labels = <<"first", "second">>
    /\ start = Some(3) /\ stop = Some(1)
    /\ status = "error" /\ raised = "ValueError"
    /\ cnt = 0

\* C17: _triangled, _squared, triangled and squared asked for a dimension
\* n < 1 (zero, negative, or no labels) yield nothing and end by raising
\* ValueError.
C17_BadDimension ==
    (kind \in Sequencers \ {"count"} /\ n < 1) =>
        /\ cnt = 0 /\ seen = {}
        /\ status \in {"fresh", "error"}
        /\ status = "error" => raised = "ValueError"

RECURSIVE TriangledAt(_, _, _, _, _)
\* the k-th tuple _triangled(d, start=s, stop=e) yields after the tuple c,
\* <<>> when it ends before
TriangledAt(d, s, e, c, k) ==
    LET r == _triangled(d, s, e, c)
    IN  IF r.kind # "yield" THEN <<>>
        ELSE IF k = 1 THEN r.val
        ELSE TriangledAt(d, s, e, r.val, k - 1)

\* the tuples the unlabelled run of the same dimension and bounds can yield
\* as its k-th item
UnlabelledAt(k) ==
    IF kind = "triangled"
    THEN {TriangledAt(Len(labels), start, stop, <<>>, k)} \ {<<>>}
    ELSE SquaredAt(Len(labels), start, stop, <<>>, k)

\* C18: the k-th dictionary of triangled(*labels) (of squared(*labels)) gives
\* each label l_i the coordinate t_i of the k-th tuple t of _triangled (of
\* _squared) with n = len(labels) and the same bounds, and has no other keys;
\* the labelled sequence ends where the unlabelled one ends.
C18_LabelledIsUnlabelled ==
    (kind \in {"triangled", "squared"}) =>
        /\ cnt >= 1 =>
              \E t \in UnlabelledAt(cnt) :
                  /\ DOMAIN last = Range(labels)
                  /\ \A i \in DOMAIN labels : last[labels[i]] = t[i]
        /\ status = "done" => UnlabelledAt(cnt + 1) = {}

MaxOf(t) == Max(Range(t))

\* a precedes b comparing coordinates left to right
LexLess(a, b) ==
    \E i \in DOMAIN a : a[i] < b[i] /\ \A j \in 1..(i - 1) : a[j] = b[j]

\* a precedes b comparing coordinates right to left
ColexLess(a, b) ==
    \E i \in DOMAIN a : a[i] < b[i] /\ \A j \in (i + 1)..Len(a) : a[j] = b[j]

\* a next() of _triangled that yields after an earlier yield
TriangledYieldsAgain ==
    kind = "_triangled" /\ n >= 1 /\ cnt >= 1 /\ cnt' = cnt + 1

\* C19 as stated: each tuple _triangled yields has a greater maximum than
\* the tuple before it, or the same maximum and comes after it in
\* lexicographic order, coordinates compared left to right.
C19_MaxThenLex ==
    [][TriangledYieldsAgain =>
          \/ MaxOf(last) < MaxOf(last')
          \/ MaxOf(last) = MaxOf(last') /\ LexLess(last, last')]_vars

\* C19 as amended: each tuple _triangled yields has a greater maximum than
\* the tuple before it, or the same maximum and comes after it comparing
\* coordinates right to left.
C19_MaxThenColex ==
    [][TriangledYieldsAgain =>
          \/ MaxOf(last) < MaxOf(last')
          \/ MaxOf(last) = MaxOf(last') /\ ColexLess(last, last')]_vars

C19_Witness ==
    /\ kind = "_triangled" /\ n = 3
    /\ <<2, 2, 3>> \in seen
    /\ last = <<1, 3, 3>>

\* the number of pairs (i, j) with lo <= i <= j <= lo + m - 1
Triangle(m) == (m * (m + 1)) \div 2

\* the k-th of the pairs (i, j), lo <= i <= j, ordered by j and then by i
PairAt(lo, k) ==
    LET m == CHOOSE x \in 0..k : Triangle(x) < k /\ k <= Triangle(x + 1)
    IN  <<lo + (k - Triangle(m) - 1), lo + m>>

\* C20: for integers start <= stop, _triangled(2, start, stop) yields the
\* pairs (i, j), start <= i <= j <= stop, by ascending j and for equal j by
\* ascending i, all of them; for start = 1, stop = 3 these are (1,1), (1,2),
\* (2,2), (1,3), (2,3), (3,3).
C20_PairsInOrder ==
    (kind = "_triangled" /\ n = 2 /\ Ordered) =>
        /\ status # "error"
        /\ cnt >= 1 => last = PairAt(start[1], cnt)
        /\ status = "done" => cnt = Triangle(stop[1] - start[1] + 1)
        /\ (start = Some(1) /\ stop = Some(3) /\ status = "done") =>
              seen = {<<1, 1>>, <<1, 2>>, <<2, 2>>, <<1, 3>>, <<2, 3>>, <<3, 3>>}

\* C21: for integers start <= stop and n >= 1, the first (m - start + 1)^n
\* tuples of _squared(n, start, stop) are exactly [start, m]^n, for every m
\* in [start, stop]; so the maximum coordinate never decreases along the
\* sequence: the k-th tuple has maximum m when (m - start)^n < k <=
\* (m - start + 1)^n.
C21_CubesFirst ==
    (kind = "_squared" /\ n >= 1 /\ Ordered) =>
        LET s == start[1]
            fits(m) == Power(m - s, n) < cnt /\ cnt <= Power(m - s + 1, n)
        IN  /\ status # "error"
            /\ cnt >= 1 =>
                  /\ \E m \in s..stop[1] : fits(m)
                  /\ \A m \in s..stop[1] :
                        fits(m) =>
                          /\ MaxOf(last) = m
                          /\ cnt = Power(m - s + 1, n) => seen = Tuples(n, s, m)
            /\ status = "done" => cnt = Power(stop[1] - s + 1, n)

\* C22: with stop not given, count(start) neither returns nor raises, its
\* k-th value is start + k - 1 (so every integer from start on is reached in
\* steps of 1), and _triangled, _squared, triangled and squared of a
\* dimension n >= 1 neither return nor raise.
C22_Unbounded ==
    (kind \in Sequencers /\ stop = None /\ n >= 1) =>
        /\ status \in {"fresh", "running"}
        /\ (kind = "count" /\ start # None /\ cnt >= 1) =>
              last = <<start[1] + cnt - 1>>
        /\ (kind = "count" /\ start = None /\ cnt >= 1) => last = <<cnt>>

\* C26: a finished _triangled of dimension k = n >= 2 over m = stop - start + 1
\* consecutive integers (start other than 0) has yielded (m + 1) * m^(k - 1) / 2
\* tuples, all distinct.
C26_TriangleLength ==
    (kind = "_triangled" /\ n >= 2 /\ Ordered /\ start # Some(0)
        /\ status = "done") =>
        LET m == stop[1] - start[1] + 1
        IN  /\ Cardinality(seen) = cnt
            /\ 2 * cnt = (m + 1) * Power(m, n - 1)

-----------------------------------------------------------------------------
(* Further properties of the registry and of the foreign-key iteration. *)

\* the classes created so far, as cases.py declares them
Created == {Classes(case)[i] : i \in 1..reg}

\* the names of the primary-key columns and of the foreign-key columns a
\* class declares
PkColumnNames(T) == Keys(SelectSeq(T.columns, IsPk))

FkColumnNames(T) == Keys(SelectSeq(T.columns, IsFk))

\* C27: after every registration, tablenames is the key set of tables, of
\* pks and of fks, pknames is the union of the primary-key names of the
\* registered tables and fknames the union of their foreign-key column
\* names, and the entries of the tables registered before are unchanged.
C27_RegistryConsistent ==
    [][(reg' = reg + 1) =>
          /\ tablenames' = {T.tablename : T \in Created'}
          /\ DOMAIN tables' = tablenames'
          /\ DOMAIN pks' = tablenames'
          /\ DOMAIN fks' = tablenames'
          /\ \A T \in Created' :
                /\ tables'[T.tablename].tablename = T.tablename
                /\ Keys(pks'[T.tablename]) = PkColumnNames(T)
                /\ Keys(fks'[T.tablename]) = FkColumnNames(T)
          /\ pknames' = UNION {PkColumnNames(T) : T \in Created'}
          /\ fknames' = UNION {FkColumnNames(T) : T \in Created'}
          /\ \A t \in tablenames :
                /\ tables'[t] = tables[t]
                /\ pks'[t] = pks[t]
                /\ fks'[t] = fks[t]]_vars

C27_Witness ==
    /\ case = "ormMixed" /\ reg = 2
    /\ tablenames = {"p", "q"}
    /\ pknames = {"id", "id_p"}
    /\ fknames = {"id_p", "owner"}

\* C30: when the mode selects no foreign-key column of the table,
\* _create_iter_fks yields the empty dictionary once and then ends, without
\* an error.
C30_NoForeignKeys ==
    (/\ kind = "_create_iter_fks"
     /\ kwargs \in Modes
     /\ Len(Selected(kwargs)) = 0) =>
        /\ status # "error"
        /\ cnt <= 1
        /\ status = "running" => (cnt = 1 /\ last = <<>> /\ DOMAIN last = {})
        /\ status = "done" => (cnt = 1 /\ seen = {<<>>})

C30_Witness ==
    /\ kind = "_create_iter_fks"
    /\ case = "ormConnected" /\ cls = "a"
    /\ kwargs = [exclude_primary |-> TRUE]
    /\ status = "done"
    /\ cnt = 1

\* C25: no step of _create_coproduct or of the iteration of _create_iter_fks,
\* in any mode, a step that ends in an error included, changes the key
\* domain: its tables, their columns and their lists stay as supplied.
C25_KeyDomainReadOnly == [][all_pks' = all_pks]_vars

C25_Witness ==
    /\ kind = "_create_iter_fks"
    /\ status = "error" /\ raised = "KeyError"
    /\ case = "ormManyMany" /\ cls = "b"
    /\ all_pks = Some(Without(ByReference("ormManyMany", 1), "c"))

-----------------------------------------------------------------------------
(* Properties of generator objects consumed in turn. *)

\* the tuples a generator object made by the call of f, consumed alone, can
\* yield as its k-th item
AloneAt(f, k) ==
    IF f.kind \in {"_squared", "squared"}
    THEN SquaredAt(f.n, f.start, f.stop, <<>>, k)
    ELSE {TriangledAt(f.n, f.start, f.stop, <<>>, k)} \ {<<>>}

\* C23: two generator objects made by separate calls of count, _triangled,
\* _squared, triangled or squared, with the same or with different
\* arguments, are independent: however their next() calls are interleaved,
\* and whether or not the other one was dropped, the k-th item of each is a
\* k-th item of the same call consumed alone, each ends after k items only
\* where the call consumed alone ends after k items, and each raises only
\* where the call consumed alone raises, at its first next().
C23_Independent ==
    \A i \in DOMAIN frames :
        LET f == frames[i]
            first == _triangled(f.n, f.start, f.stop, <<>>)
        IN  /\ f.cnt >= 1 => f.last \in {Item(f, t) : t \in AloneAt(f, f.cnt)}
            /\ f.status = "done" => f.cnt >= 1 /\ AloneAt(f, f.cnt + 1) = {}
            /\ f.status = "error" => f.cnt = 0 /\ first.kind = "error"
            /\ f.status = "fresh" => f.cnt = 0
            /\ f.status = "running" => f.cnt >= 1

\* both generator objects have yielded, one was then dropped and the other
\* went on to its end
C23_Witness ==
    /\ frames # <<>>
    /\ frames[1].kind = "squared" /\ frames[1].status = "closed"
    /\ frames[1].cnt = 2
    /\ frames[2].kind = "triangled" /\ frames[2].status = "done"
    /\ frames[2].n = 2 /\ frames[2].cnt = 3

SameCall(f, g) ==
    /\ f.kind = g.kind
    /\ f.labels = g.labels
    /\ f.start = g.start
    /\ f.stop = g.stop

=============================================================================
